---- MODULE Spec2Model ----
(***************************************************************************)
(* Index-coverage sizing model of feldera/storage-design (src/main.rs).   *)
(*                                                                         *)
(* The program is modelled as a state machine that follows main(): parse   *)
(* the arguments, sweep value_size over 2^4 .. 2^16, build a LayerFile     *)
(* (four Index values, each grown by the coverage loop of Index::new) and  *)
(* compute Index::total_size() for every selected index.                   *)
(*                                                                         *)
(* All quantities of the program are u64.  They are represented exactly,   *)
(* as little-endian sequences of base-10^4 limbs without leading zero      *)
(* limbs (<<>> is 0, <<5552, 2325, 9902, 21>> is 2199023255552).  An       *)
(* operation whose exact result does not fit in 64 bits panics when the    *)
(* build has overflow checks (debug profile) and wraps modulo 2^64 when    *)
(* it has not (release profile); the build is chosen in Init.              *)
(***************************************************************************)
EXTENDS Integers, Sequences, FiniteSets, TLC

(***************************************************************************)
(* Exact natural-number arithmetic on limb sequences.                      *)
(***************************************************************************)
Base == 10^4

Limb(a, i) == IF i <= Len(a) THEN a[i] ELSE 0

\* Drop the leading (most significant) zero limbs.
Norm(s) ==
    LET nz == {i \in 1..Len(s) : s[i] # 0}
    IN IF nz = {} THEN <<>>
       ELSE SubSeq(s, 1, CHOOSE i \in nz : \A j \in nz : j <= i)

\* The limb sequence of a small natural number (below 2^31).
Big(n) == Norm(<<n % Base, (n \div Base) % Base, n \div (Base * Base)>>)

\* The limb sequence written as groups of four decimal digits, e.g.
\* Dec(<<2, 1990, 2325, 5552>>) is 2199023255552.
Dec(groups) == Norm([i \in 1..Len(groups) |-> groups[Len(groups) + 1 - i]])

Lt(a, b) ==
    IF Len(a) # Len(b) THEN Len(a) < Len(b)
    ELSE \E i \in 1..Len(a) : a[i] < b[i] /\ \A j \in (i + 1)..Len(a) : a[j] = b[j]
Geq(a, b) == ~Lt(a, b)
Leq(a, b) == ~Lt(b, a)
Gt(a, b) == Lt(b, a)
Max(a, b) == IF Lt(a, b) THEN b ELSE a

Add(a, b) ==
    LET n == (IF Len(a) > Len(b) THEN Len(a) ELSE Len(b)) + 1
        s == [i \in 1..n |-> Limb(a, i) + Limb(b, i)]
        carry(i) == IF \E j \in 1..(i - 1) :
                          s[j] >= Base /\ \A k \in (j + 1)..(i - 1) : s[k] = Base - 1
                    THEN 1 ELSE 0
    IN Norm([i \in 1..n |-> (s[i] + carry(i)) % Base])

\* a - b, for a >= b.
Sub(a, b) ==
    LET d == [i \in 1..Len(a) |-> a[i] - Limb(b, i)]
        borrow(i) == IF \E j \in 1..(i - 1) :
                           d[j] < 0 /\ \A k \in (j + 1)..(i - 1) : d[k] <= 0
                     THEN 1 ELSE 0
    IN Norm([i \in 1..Len(a) |-> (d[i] - borrow(i)) % Base])

Shift(a, n) == IF a = <<>> THEN <<>> ELSE [i \in 1..n |-> 0] \o a

\* a times one limb d.
MulLimb(a, d) ==
    Add(Norm([i \in 1..Len(a) |-> (a[i] * d) % Base]),
        Shift(Norm([i \in 1..Len(a) |-> (a[i] * d) \div Base]), 1))

\* The sum of a[i] * b[k + 1 - i] over i in lo..hi: the part of column k of
\* the schoolbook product (below 2^31 for operands of up to 21 limbs).
RECURSIVE Column(_, _, _, _, _)
Column(a, b, k, lo, hi) ==
    IF lo > hi THEN 0 ELSE a[lo] * b[k + 1 - lo] + Column(a, b, k, lo + 1, hi)

Mul(a, b) ==
    IF a = <<>> \/ b = <<>> THEN <<>>
    ELSE LET n == Len(a) + Len(b)
             lo(k) == IF k > Len(b) THEN k + 1 - Len(b) ELSE 1
             hi(k) == IF k < Len(a) THEN k ELSE Len(a)
             col == [k \in 1..n |-> Column(a, b, k, lo(k), hi(k))]
         IN Add(Add(Norm([k \in 1..n |-> col[k] % Base]),
                    Shift(Norm([k \in 1..n |-> (col[k] \div Base) % Base]), 1)),
                Shift(Norm([k \in 1..n |-> col[k] \div (Base * Base)]), 2))

\* Long division, most significant limb first.  The divisor is scaled so
\* that its leading limb is at least Base / 2; the quotient limb is then one
\* of the three values at and below the estimate from the leading limbs.
QuotLimb(cur, d) ==
    LET n == Len(d)
        top == Limb(cur, n + 1) * Base + Limb(cur, n)
        est == IF top \div d[n] > Base - 1 THEN Base - 1 ELSE top \div d[n]
    IN CHOOSE q \in {est - 2, est - 1, est} \cap (0..(Base - 1)) :
          /\ Leq(MulLimb(d, q), cur)
          /\ Lt(cur, Add(MulLimb(d, q), d))

RECURSIVE QuotFrom(_, _, _, _)
QuotFrom(n, d, i, rem) ==
    IF i = 0 THEN <<>>
    ELSE LET cur == Norm(<<n[i]>> \o rem)
             q == IF Lt(cur, d) THEN 0 ELSE QuotLimb(cur, d)
         IN IF q = 0 THEN QuotFrom(n, d, i - 1, cur) \o <<0>>
            ELSE QuotFrom(n, d, i - 1, Sub(cur, MulLimb(d, q))) \o <<q>>

\* Quotient and remainder of n by d, for d > 0.
DivMod(n, d) ==
    IF Lt(n, d) THEN [quot |-> <<>>, rem |-> n]
    ELSE LET f == Base \div (d[Len(d)] + 1)
             nn == MulLimb(n, f)
             quot == Norm(QuotFrom(nn, MulLimb(d, f), Len(nn), <<>>))
         IN [quot |-> quot, rem |-> Sub(n, Mul(quot, d))]
Div(n, d) == DivMod(n, d).quot
Mod(n, d) == DivMod(n, d).rem

RECURSIVE Pow2(_)
Pow2(e) == IF e < 30 THEN Big(2^e) ELSE Mul(Big(2^30), Pow2(e - 30))

Zero == <<>>
One == <<1>>
TwoTo64 == Pow2(64)

(***************************************************************************)
(* u64 operations: the exact result, reduced modulo 2^64, and whether it   *)
(* left the u64 range.                                                     *)
(***************************************************************************)
Wrap(x) == IF Lt(x, TwoTo64) THEN x ELSE Mod(x, TwoTo64)
CheckedMul(a, b) == LET p == Mul(a, b) IN [val |-> Wrap(p), ovf |-> Geq(p, TwoTo64)]
CheckedAdd(a, b) == LET s == Add(a, b) IN [val |-> Wrap(s), ovf |-> Geq(s, TwoTo64)]

MulOverflow == "attempt to multiply with overflow"
AddOverflow == "attempt to add with overflow"
ShlOverflow == "attempt to shift left with overflow"
DivByZero == "attempt to divide by zero"
AllocFailed == "memory allocation failed"

(***************************************************************************)
(* Bounds of the model and the argument values it explores.                *)
(***************************************************************************)
\* A loop that pushes the value it started from pushes it again for as long
\* as memory lasts.  The model follows MaxLevels elements of such a loop
\* before memory runs out; a loop that makes progress is followed to its end,
\* however many elements it pushes.
MaxLevels == 64

MinBranchValues == {Big(0), Big(1), Big(32), Big(367), Add(Pow2(60), One)}
MinDataBlockValues == {Big(0), Big(8192)}
MinIndexBlockValues == {Big(4096), Big(8192)}
Exponents == {20, 40, 61, 63, 64}
LaterExponents == {41, 63}

IndexTypes == <<"Data", "C1Row", "Row", "Filter">>
IndexSelections == {IndexTypes}
OtherSelections == {<<"Data">>, <<"Filter", "C1Row">>}

\* The arguments of the tallest indexes: every block holds two entries.
TallArgs == [min_branch |-> Big(2), min_data_block |-> Big(0),
             min_index_block |-> Big(0), total_data_size |-> 63,
             indexes |-> IndexTypes]

\* Arguments of loops that go on after a product has wrapped and still reach
\* total_values(), with more than MaxLevels elements, in a build without
\* overflow checks.
WrapArgs == [min_branch |-> Add(Pow2(20), One), min_data_block |-> Mul(Big(3), Pow2(35)),
             min_index_block |-> Big(0), total_data_size |-> 63,
             indexes |-> IndexTypes]

FirstShift == 4
LastShift == 16
FilterSpan == 65536

Range(s) == {s[i] : i \in 1..Len(s)}

(***************************************************************************)
(* Params, Index and the pure parts of Index::new, Index::total_size and   *)
(* LayerFile::new.                                                         *)
(***************************************************************************)
total_values(p) == Div(p.total_data_size, p.value_size)

index_entry_size(t, p) ==
    CASE t = "Data" -> Mul(Big(2), p.value_size)
      [] t = "C1Row" -> Big(6)
      [] t = "Row" -> Big(12)
      [] t = "Filter" -> Big(5)

base_coverage(t, vpdb) == IF t = "Filter" THEN Big(FilterSpan) ELSE vpdb

entries_per_index_block(p, entry_size) ==
    Max(Div(p.min_index_block, entry_size), p.min_branch)

last_coverage(coverage, vpdb) ==
    IF coverage = <<>> THEN vpdb ELSE coverage[Len(coverage)]

\* The exit test of the coverage loop, and the same test with > for >=.
LoopDoneStrict(last, p) == Gt(last, total_values(p))
LoopDone(last, p) == Geq(last, total_values(p))

MakeIndex(p, f) ==
    [params |-> p,
     index_type |-> f.index_type,
     index_entry_size |-> f.index_entry_size,
     entries_per_block |-> f.entries_per_index_block,
     block_size |-> f.index_block_size,
     coverage |-> f.coverage,
     height |-> Len(f.coverage)]

\* Index::total_size, one level: the number of index blocks at a level of
\* coverage c, the quotient plus one on a remainder.
BlocksAt(tv, c) ==
    LET dm == DivMod(tv, c)
        inc == CheckedAdd(dm.quot, One)
    IN IF Gt(dm.rem, Zero) THEN inc ELSE [val |-> dm.quot, ovf |-> FALSE]

(***************************************************************************)
(* State.                                                                  *)
(***************************************************************************)
VARIABLES
    args,                   \* Args as parsed from the command line
    overflow_checks,        \* TRUE: debug profile, FALSE: release profile
    pc,                     \* position in main
    abort,                  \* panic message, "" while running
    overflowed,             \* some u64 operation has left the u64 range
    total_data_size,        \* main: 1 << args.total_data_size
    shift,                  \* main: position of the value_size sweep
    params,                 \* Params of the current sweep iteration
    values_per_data_block,  \* LayerFile::new
    data_block_size,        \* LayerFile::new
    total_data_blocks,      \* LayerFile::new
    indexes,                \* LayerFile::new: the Index values built so far
    new_index,              \* locals of the running Index::new
    printed,                \* main: indexes of the layer file already reported
    level,                  \* Index::total_size: coverage levels already summed
    total_index_blocks,     \* Index::total_size: the sum so far
    sizes,                  \* main: total_size() of every reported row
    earlier                 \* sizes of an earlier run (two-run comparison only)

vars == <<args, overflow_checks, pc, abort, overflowed, total_data_size, shift,
          params, values_per_data_block, data_block_size, total_data_blocks,
          indexes, new_index, printed, level, total_index_blocks, sizes, earlier>>

NoParams == [total_data_size |-> Zero, value_size |-> One, min_data_block |-> Zero,
             min_index_block |-> Zero, min_branch |-> Zero]
NoFrame == [index_type |-> "", index_entry_size |-> Zero, values_per_data_block |-> Zero,
            entries_per_index_block |-> Zero, index_block_size |-> Zero, coverage |-> <<>>]
NoRun == [total_data_size |-> -1, sizes |-> <<>>]

\* Every combination of the argument values with all four indexes selected
\* (the default), the default arguments with other selections, the arguments
\* of the tallest indexes and those of the longest loops.
ArgsSet ==
    [min_branch : MinBranchValues, min_data_block : MinDataBlockValues,
     min_index_block : MinIndexBlockValues, total_data_size : Exponents,
     indexes : IndexSelections]
    \cup [min_branch : {Big(32)}, min_data_block : {Big(8192)},
          min_index_block : {Big(8192)}, total_data_size : {40},
          indexes : OtherSelections]
    \cup {TallArgs, WrapArgs}

Start(a, checks, before) ==
    /\ args = a
    /\ overflow_checks = checks
    /\ pc = "start"
    /\ abort = ""
    /\ overflowed = FALSE
    /\ total_data_size = Zero
    /\ shift = FirstShift
    /\ params = NoParams
    /\ values_per_data_block = Zero
    /\ data_block_size = Zero
    /\ total_data_blocks = Zero
    /\ indexes = <<>>
    /\ new_index = NoFrame
    /\ printed = 0
    /\ level = 0
    /\ total_index_blocks = Zero
    /\ sizes = <<>>
    /\ earlier = before

Init == \E a \in ArgsSet, checks \in BOOLEAN : Start(a, checks, NoRun)

Panic(msg) == pc' = "panic" /\ abort' = msg

(***************************************************************************)
(* main: parse the arguments and compute 1 << total_data_size.             *)
(***************************************************************************)
ParseArgs ==
    /\ pc = "start"
    /\ IF args.total_data_size >= 64
       THEN /\ overflowed' = TRUE
            /\ IF overflow_checks
               THEN Panic(ShlOverflow) /\ UNCHANGED total_data_size
               ELSE /\ total_data_size' = Pow2(args.total_data_size % 64)
                    /\ pc' = "sweep"
                    /\ UNCHANGED abort
       ELSE /\ total_data_size' = Pow2(args.total_data_size)
            /\ pc' = "sweep"
            /\ UNCHANGED <<abort, overflowed>>
    /\ UNCHANGED <<args, overflow_checks, shift, params, values_per_data_block,
                   data_block_size, total_data_blocks, indexes, new_index,
                   printed, level, total_index_blocks, sizes, earlier>>

(***************************************************************************)
(* main: next value_size of the sweep; LayerFile::new up to its first      *)
(* call of Index::new.                                                     *)
(***************************************************************************)
LayerFileNew ==
    /\ pc = "sweep"
    /\ shift <= LastShift
    /\ LET p == [total_data_size |-> total_data_size,
                 value_size |-> Pow2(shift),
                 min_data_block |-> args.min_data_block,
                 min_index_block |-> args.min_index_block,
                 min_branch |-> args.min_branch]
           vpdb == Max(Div(p.min_data_block, p.value_size), p.min_branch)
           dbs == CheckedMul(p.value_size, vpdb)
       IN /\ params' = p
          /\ values_per_data_block' = vpdb
          /\ overflowed' = (overflowed \/ dbs.ovf)
          /\ IF dbs.ovf /\ overflow_checks
             THEN /\ Panic(MulOverflow)
                  /\ UNCHANGED <<data_block_size, total_data_blocks>>
             ELSE /\ data_block_size' = dbs.val
                  /\ IF dbs.val = Zero
                     THEN Panic(DivByZero) /\ UNCHANGED total_data_blocks
                     ELSE /\ total_data_blocks' = Div(p.total_data_size, dbs.val)
                          /\ pc' = "index_new"
                          /\ UNCHANGED abort
    /\ indexes' = <<>>
    /\ UNCHANGED <<args, overflow_checks, total_data_size, shift, new_index,
                   printed, level, total_index_blocks, sizes, earlier>>

SweepDone ==
    /\ pc = "sweep"
    /\ shift > LastShift
    /\ pc' = "done"
    /\ UNCHANGED <<args, overflow_checks, abort, overflowed, total_data_size, shift,
                   params, values_per_data_block, data_block_size, total_data_blocks,
                   indexes, new_index, printed, level, total_index_blocks, sizes, earlier>>

(***************************************************************************)
(* Index::new up to the coverage loop, for the next index of the layer     *)
(* file (data, c1row, row, filter in this order).                          *)
(***************************************************************************)
IndexNewEnter ==
    /\ pc = "index_new"
    /\ LET t == IndexTypes[Len(indexes) + 1]
           entry_size == index_entry_size(t, params)
           epb == entries_per_index_block(params, entry_size)
           bs == CheckedMul(entry_size, epb)
       IN /\ overflowed' = (overflowed \/ bs.ovf)
          /\ IF bs.ovf /\ overflow_checks
             THEN Panic(MulOverflow) /\ UNCHANGED new_index
             ELSE /\ new_index' = [index_type |-> t,
                                   index_entry_size |-> entry_size,
                                   values_per_data_block |-> base_coverage(t, values_per_data_block),
                                   entries_per_index_block |-> epb,
                                   index_block_size |-> bs.val,
                                   coverage |-> <<>>]
                  /\ pc' = "loop"
                  /\ UNCHANGED abort
    /\ UNCHANGED <<args, overflow_checks, total_data_size, shift, params,
                   values_per_data_block, data_block_size, total_data_blocks,
                   indexes, printed, level, total_index_blocks, sizes, earlier>>

(***************************************************************************)
(* The coverage loop is at an iteration that pushes the value it started   *)
(* from: the next iteration starts from the same last value, and so does   *)
(* every later one.                                                        *)
(***************************************************************************)
LoopStuck ==
    /\ pc = "loop"
    /\ LET last == last_coverage(new_index.coverage, new_index.values_per_data_block)
           next == CheckedMul(last, new_index.entries_per_index_block)
       IN /\ ~LoopDone(last, params)
          /\ ~(next.ovf /\ overflow_checks)
          /\ next.val = last

(***************************************************************************)
(* One iteration of the coverage loop that pushes a level.  The Vec grows  *)
(* with every push.  A loop that pushes the value it started from repeats  *)
(* that iteration until the Vec fails to allocate, which aborts the        *)
(* process (where the system kills a process that is out of memory, it     *)
(* ends the same way); the model lets the allocation fail once the Vec of  *)
(* such a loop holds MaxLevels elements.                                   *)
(***************************************************************************)
LoopPush ==
    /\ pc = "loop"
    /\ LET last == last_coverage(new_index.coverage, new_index.values_per_data_block)
           next == CheckedMul(last, new_index.entries_per_index_block)
       IN /\ ~LoopDone(last, params)
          /\ overflowed' = (overflowed \/ next.ovf)
          /\ IF next.ovf /\ overflow_checks
             THEN Panic(MulOverflow) /\ UNCHANGED new_index
             ELSE IF next.val = last /\ Len(new_index.coverage) >= MaxLevels
             THEN Panic(AllocFailed) /\ UNCHANGED new_index
             ELSE /\ new_index' = [new_index EXCEPT !.coverage = Append(@, next.val)]
                  /\ UNCHANGED <<pc, abort>>
    /\ UNCHANGED <<args, overflow_checks, total_data_size, shift, params,
                   values_per_data_block, data_block_size, total_data_blocks,
                   indexes, printed, level, total_index_blocks, sizes, earlier>>

(***************************************************************************)
(* The iteration that leaves the loop: Index::new returns, and             *)
(* LayerFile::new goes on to its next index or returns.                    *)
(***************************************************************************)
LoopBreak ==
    /\ pc = "loop"
    /\ LoopDone(last_coverage(new_index.coverage, new_index.values_per_data_block), params)
    /\ indexes' = Append(indexes, MakeIndex(params, new_index))
    /\ new_index' = NoFrame
    /\ pc' = IF Len(indexes) + 1 = Len(IndexTypes) THEN "report" ELSE "index_new"
    /\ UNCHANGED <<args, overflow_checks, abort, overflowed, total_data_size, shift,
                   params, values_per_data_block, data_block_size, total_data_blocks,
                   printed, level, total_index_blocks, sizes, earlier>>

(***************************************************************************)
(* main: the row of the next index of the layer file.  An index that is    *)
(* not selected is skipped; for a selected one total_size() is entered.    *)
(***************************************************************************)
NextRow ==
    /\ printed' = IF printed + 1 = Len(indexes) THEN 0 ELSE printed + 1
    /\ shift' = IF printed + 1 = Len(indexes) THEN shift + 1 ELSE shift
    /\ pc' = IF printed + 1 = Len(indexes) THEN "sweep" ELSE "report"

PrintRow ==
    /\ pc = "report"
    /\ IF \E t \in Range(args.indexes) : t = indexes[printed + 1].index_type
       THEN /\ pc' = "total_size"
            /\ UNCHANGED <<printed, shift>>
       ELSE NextRow
    /\ level' = 0
    /\ total_index_blocks' = Zero
    /\ UNCHANGED <<args, overflow_checks, abort, overflowed, total_data_size, params,
                   values_per_data_block, data_block_size, total_data_blocks,
                   indexes, new_index, sizes, earlier>>

(***************************************************************************)
(* Index::total_size: the blocks of one more level are added to the sum.   *)
(***************************************************************************)
SumLevel ==
    /\ pc = "total_size"
    /\ level < Len(indexes[printed + 1].coverage)
    /\ LET index == indexes[printed + 1]
           c == index.coverage[level + 1]
           blocks == BlocksAt(total_values(index.params), c)
           sum == CheckedAdd(total_index_blocks, blocks.val)
       IN IF c = Zero
          THEN Panic(DivByZero) /\ UNCHANGED <<overflowed, level, total_index_blocks>>
          ELSE /\ overflowed' = (overflowed \/ blocks.ovf \/ sum.ovf)
               /\ IF (blocks.ovf \/ sum.ovf) /\ overflow_checks
                  THEN Panic(AddOverflow) /\ UNCHANGED <<level, total_index_blocks>>
                  ELSE /\ total_index_blocks' = sum.val
                       /\ level' = level + 1
                       /\ UNCHANGED <<pc, abort>>
    /\ UNCHANGED <<args, overflow_checks, total_data_size, shift, params,
                   values_per_data_block, data_block_size, total_data_blocks,
                   indexes, new_index, printed, sizes, earlier>>

(***************************************************************************)
(* Index::total_size returns the sum times block_size; main prints the     *)
(* row and goes on.                                                        *)
(***************************************************************************)
TotalSizeReturn ==
    /\ pc = "total_size"
    /\ level = Len(indexes[printed + 1].coverage)
    /\ LET index == indexes[printed + 1]
           bytes == CheckedMul(total_index_blocks, index.block_size)
       IN /\ overflowed' = (overflowed \/ bytes.ovf)
          /\ IF bytes.ovf /\ overflow_checks
             THEN Panic(MulOverflow) /\ UNCHANGED <<printed, shift, sizes>>
             ELSE /\ sizes' = Append(sizes, [value_size |-> index.params.value_size,
                                             index_type |-> index.index_type,
                                             total_size |-> bytes.val])
                  /\ NextRow
                  /\ UNCHANGED abort
    /\ UNCHANGED <<args, overflow_checks, total_data_size, params,
                   values_per_data_block, data_block_size, total_data_blocks,
                   indexes, new_index, level, total_index_blocks, earlier>>

Next ==
    \/ ParseArgs
    \/ LayerFileNew
    \/ SweepDone
    \/ IndexNewEnter
    \/ LoopPush
    \/ LoopBreak
    \/ PrintRow
    \/ SumLevel
    \/ TotalSizeReturn

Spec == Init /\ [][Next]_vars

(***************************************************************************)
(* Two runs of main that differ only in --total-data-size.  Once a run has *)
(* come to its end or has aborted, the rows it has printed are kept and    *)
(* main is started again with a larger exponent.                           *)
(***************************************************************************)
RerunArgsSet == [min_branch : {Big(1), Big(32)}, min_data_block : {Big(0)},
                 min_index_block : {Big(4096)}, total_data_size : {40, 62},
                 indexes : IndexSelections]

InitRerun == \E a \in RerunArgsSet, checks \in BOOLEAN : Start(a, checks, NoRun)

Rerun ==
    /\ pc \in {"done", "panic"}
    /\ earlier = NoRun
    /\ \E e \in LaterExponents :
          /\ e > args.total_data_size
          /\ args' = [args EXCEPT !.total_data_size = e]
    /\ earlier' = [total_data_size |-> args.total_data_size, sizes |-> sizes]
    /\ pc' = "start"
    /\ abort' = ""
    /\ overflowed' = FALSE
    /\ total_data_size' = Zero
    /\ shift' = FirstShift
    /\ params' = NoParams
    /\ values_per_data_block' = Zero
    /\ data_block_size' = Zero
    /\ total_data_blocks' = Zero
    /\ indexes' = <<>>
    /\ new_index' = NoFrame
    /\ printed' = 0
    /\ level' = 0
    /\ total_index_blocks' = Zero
    /\ sizes' = <<>>
    /\ UNCHANGED overflow_checks

NextRerun == Next \/ Rerun

SpecRerun == InitRerun /\ [][NextRerun]_vars

(***************************************************************************)
(* Reference quantities used by the properties.                            *)
(***************************************************************************)
CeilDiv(a, b) == Div(Add(a, Sub(b, One)), b)

\* The sum of ceil(tv / coverage[i]) over the levels lo..hi.
RECURSIVE CeilSum(_, _, _, _)
CeilSum(tv, coverage, lo, hi) ==
    IF lo > hi THEN Zero
    ELSE IF lo = hi THEN CeilDiv(tv, coverage[lo])
    ELSE Add(CeilSum(tv, coverage, lo, (lo + hi) \div 2),
             CeilSum(tv, coverage, (lo + hi) \div 2 + 1, hi))

LayerFileBuilt == pc \in {"index_new", "loop", "report", "total_size"}

DefaultArgs ==
    /\ args.min_branch = Big(32)
    /\ args.min_data_block = Big(8192)
    /\ args.min_index_block = Big(8192)

(***************************************************************************)
(* C1: every Index returned by Index::new has height = coverage.len(); its *)
(* last coverage element is >= total_values() while the base coverage and  *)
(* every earlier element are < total_values(); so its height is 0 exactly  *)
(* when the base coverage is >= total_values().                            *)
(***************************************************************************)
C1_HeightIsLeast ==
    \A ix \in Range(indexes) :
        LET tv == total_values(ix.params)
            base == base_coverage(ix.index_type, values_per_data_block)
        IN /\ ix.height = Len(ix.coverage)
           /\ (ix.height = 0) <=> Geq(base, tv)
           /\ ix.height > 0 =>
                 /\ Geq(ix.coverage[ix.height], tv)
                 /\ Lt(base, tv)
                 /\ \A i \in 1..(ix.height - 1) : Lt(ix.coverage[i], tv)

C1_Witness ==
    /\ \E ix \in Range(indexes) : ix.height >= 2
    /\ \E ix \in Range(indexes) : ix.height = 0

(***************************************************************************)
(* C2: Index::new always terminates: the coverage loop reaches a last      *)
(* value >= total_values() after finitely many iterations, so main's sweep *)
(* finishes.  A loop that terminates never comes to an iteration that      *)
(* leaves its last value unchanged below total_values() (from there every  *)
(* later iteration is the same one), and it never ends by running out of   *)
(* memory.                                                                 *)
(***************************************************************************)
C2_LoopTerminates == ~LoopStuck /\ abort # AllocFailed

(***************************************************************************)
(* C3: every Index matches the reference sizing model: entries_per_block  *)
(* is max(min_index_block / entry_size, min_branch), block_size is         *)
(* entry_size * entries_per_block, coverage is the geometric sequence      *)
(* base * entries_per_block^(k+1), strictly increasing when                *)
(* entries_per_block > 1; and for 2^40 bytes of 16-byte values with the    *)
(* default minimums the Data index has entries_per_block = 256, height 4   *)
(* and coverage [131072, 33554432, 8589934592, 2199023255552].             *)
(***************************************************************************)
C3_ReferenceModel ==
    \A ix \in Range(indexes) :
        LET p == ix.params
            base == base_coverage(ix.index_type, values_per_data_block)
            prev(k) == IF k = 1 THEN base ELSE ix.coverage[k - 1]
        IN /\ ix.entries_per_block = Max(Div(p.min_index_block, ix.index_entry_size), p.min_branch)
           /\ ix.block_size = Mul(ix.index_entry_size, ix.entries_per_block)
           /\ \A k \in 1..Len(ix.coverage) :
                 /\ ix.coverage[k] = Mul(prev(k), ix.entries_per_block)
                 /\ Gt(ix.entries_per_block, One) => Gt(ix.coverage[k], prev(k))
           /\ ( /\ DefaultArgs
                /\ p.total_data_size = Pow2(40)
                /\ p.value_size = Big(16)
                /\ ix.index_type = "Data" )
              => /\ ix.entries_per_block = Big(256)
                 /\ ix.height = 4
                 /\ ix.coverage = << Big(131072), Big(33554432),
                                     Dec(<<85, 8993, 4592>>), Dec(<<2, 1990, 2325, 5552>>) >>

(***************************************************************************)
(* C4: total_size() is block_size times the sum over the coverage levels   *)
(* of ceil(total_values() / c); it is 0 for an index of height 0.          *)
(***************************************************************************)
C4_TotalSize ==
    \A ix \in Range(indexes) : \A r \in Range(sizes) :
        (r.value_size = ix.params.value_size /\ r.index_type = ix.index_type)
        => /\ r.total_size = Mul(ix.block_size,
                                 CeilSum(total_values(ix.params), ix.coverage, 1, Len(ix.coverage)))
           /\ ix.height = 0 => r.total_size = Zero

(***************************************************************************)
(* C5: total_size() is non-decreasing in total_data_size: of two runs that *)
(* differ only in a larger total data size, the later one reports, for the *)
(* same value size and index, a size at least as large.                    *)
(***************************************************************************)
C5_Monotone ==
    \A r1 \in Range(earlier.sizes) : \A r2 \in Range(sizes) :
        (r1.value_size = r2.value_size /\ r1.index_type = r2.index_type)
        => Leq(r1.total_size, r2.total_size)

(***************************************************************************)
(* C6: LayerFile::new matches the reference layout: values_per_data_block  *)
(* is max(min_data_block / value_size, min_branch), data_block_size is     *)
(* value_size * values_per_data_block, total_data_blocks is                *)
(* total_data_size / data_block_size, and the indexes are Data, C1Row,     *)
(* Row, Filter with entry sizes 2 * value_size, 6, 12, 5 and base          *)
(* coverages values_per_data_block (three times) and 65536.                *)
(***************************************************************************)
C6_ReferenceLayout ==
    LayerFileBuilt =>
        /\ values_per_data_block = Max(Div(params.min_data_block, params.value_size), params.min_branch)
        /\ data_block_size = Mul(params.value_size, values_per_data_block)
        /\ total_data_blocks = Div(params.total_data_size, data_block_size)
        /\ Len(indexes) <= 4
        /\ pc = "report" => Len(indexes) = 4
        /\ \A k \in 1..Len(indexes) :
              /\ indexes[k].index_type = IndexTypes[k]
              /\ indexes[k].index_entry_size =
                    <<Add(params.value_size, params.value_size), Big(6), Big(12), Big(5)>>[k]
        /\ pc = "loop" =>
              /\ new_index.index_type = IndexTypes[Len(indexes) + 1]
              /\ new_index.values_per_data_block =
                    IF Len(indexes) + 1 = 4 THEN Big(65536) ELSE values_per_data_block

(***************************************************************************)
(* C7: LayerFile::new has no failure modes: no division made while a       *)
(* layer file and its four indexes are built has a zero divisor, so the    *)
(* construction never aborts on one.                                       *)
(***************************************************************************)
C7_NoZeroDivisor == ~(abort = DivByZero /\ Len(indexes) < Len(IndexTypes))

(***************************************************************************)
(* C8: the minimum block sizes are lower bounds: data_block_size >=        *)
(* min_data_block and every index has block_size >= min_index_block.       *)
(***************************************************************************)
C8_MinimumBlockSizes ==
    LayerFileBuilt =>
        /\ Geq(data_block_size, params.min_data_block)
        /\ \A ix \in Range(indexes) : Geq(ix.block_size, params.min_index_block)

(***************************************************************************)
(* C9: the modelled tree has a single root: for an index of height >= 1    *)
(* the top level has exactly one block, and the per-level block counts     *)
(* never increase from the first level to the last.                        *)
(***************************************************************************)
C9_SingleRoot ==
    \A ix \in Range(indexes) :
        LET tv == total_values(ix.params)
            blocks(i) == CeilDiv(tv, ix.coverage[i])
        IN ix.height >= 1 =>
              /\ blocks(ix.height) = One
              /\ \A i \in 1..(ix.height - 1) : Geq(blocks(i), blocks(i + 1))

(***************************************************************************)
(* C10: with the default minimums and any exponent 0..63 every product     *)
(* and sum of the model stays below 2^64.                                  *)
(***************************************************************************)
C10_NoOverflow ==
    (DefaultArgs /\ args.total_data_size <= 63) => ~overflowed

====
